---- MODULE Spec2Model ----
(***************************************************************************)
(* Model of DatasetsSpider (datasets/spiders/datasets_spider.py): the      *)
(* sitemap traversal (start_requests, _parse_sitemap, _get_sitemap_body,   *)
(* sitemap_filter, iterloc) and the page handler parse.                    *)
(*                                                                         *)
(* Strings are sequences of tokens, so that str.endswith, re.search and    *)
(* str.split are computed on the text and not looked up: the URL           *)
(* "https://h/datasets/mnist" is <<"https://h", "/", "datasets", "/",      *)
(* "mnist">>.  A compiled pattern is the token sequence it searches for;   *)
(* the empty pattern is <<>>.                                              *)
(*                                                                         *)
(* What the scrapy library does is modelled at the calls the spider makes  *)
(* of it (gzip_magic_number, gunzip, Sitemap, sitemap_urls_from_robots,    *)
(* Request).  Locations are absolute URLs, so Request(loc) is built for    *)
(* every location, and the response of a robots.txt URL is a text          *)
(* response, so response.text is defined.                                  *)
(***************************************************************************)
EXTENDS Integers, Sequences, FiniteSets, TLC

VARIABLES
    sitemap_urls,            \* class attribute: the seed URLs, in order
    sitemap_alternate_links, \* class attribute: the alternate-link flag
    _cbs,                    \* self._cbs: <<[r |-> pattern, c |-> handler]>>
    _follow,                 \* self._follow: <<pattern>>
    web,                     \* what the fetch engine obtains at each URL
    started,                 \* start_requests has been consumed
    pending,                 \* fetch tasks handed to the engine, not yet answered
    log,                     \* one record per callback the engine has invoked
    records                  \* the items yielded by parse, in order

vars == <<sitemap_urls, sitemap_alternate_links, _cbs, _follow, web, started,
          pending, log, records>>

config == <<sitemap_urls, sitemap_alternate_links, _cbs, _follow>>

----------------------------------------------------------------------------
(* Bounds of the model. *)

\* entries listed by one sitemap document
MaxEntries == 2

\* callbacks the engine invokes in one crawl (the spider keeps no visited set)
MaxFetches == 4

----------------------------------------------------------------------------
(* Text. *)

\* s.endswith(suffix)
endswith(s, suffix) ==
    /\ Len(suffix) <= Len(s)
    /\ SubSeq(s, Len(s) - Len(suffix) + 1, Len(s)) = suffix

\* faulty variant: the pattern must match the whole of s (fullmatch)
search_fullmatch(pattern, s) == pattern = s

\* pattern.search(s): the pattern occurs somewhere in s (unanchored)
search(pattern, s) ==
    \E i \in 1..(Len(s) + 1) :
        /\ i + Len(pattern) - 1 <= Len(s)
        /\ SubSeq(s, i, i + Len(pattern) - 1) = pattern

\* regex(x): re.compile(x) of a string; the compiled pattern searches for x
regex(x) == x

\* urlparse(url).path: what follows scheme and host
urlpath(url) == SubSeq(url, 2, Len(url))

\* s.split('/')[-1]: what follows the last "/" of s, all of s when it has none
RECURSIVE lastsplit(_)
lastsplit(s) ==
    IF s = <<>> THEN <<>>
    ELSE IF s[Len(s)] = "/" THEN <<>>
    ELSE lastsplit(SubSeq(s, 1, Len(s) - 1)) \o <<s[Len(s)]>>

----------------------------------------------------------------------------
(* The URLs of the model. *)

Host == "https://h"
SeedUrl   == <<Host, "/", "sitemap", ".xml">>
RobotsUrl == <<Host, "/", "robots", ".txt">>
ChildUrl  == <<Host, "/", "datasets", ".xml", ".gz">>
PageUrl   == <<Host, "/", "datasets", "/", "mnist">>
Page2Url  == <<Host, "/", "datasets", "/", "cifar">>
OtherUrl  == <<Host, "/", "about", ".html">>

Urls == {SeedUrl, RobotsUrl, ChildUrl, PageUrl, Page2Url, OtherUrl}

----------------------------------------------------------------------------
(* Sitemap entries, documents, bodies and responses.                       *)
(*                                                                         *)
(* An entry is the dict the Sitemap parser yields: d["loc"], and           *)
(* d["alternate"] when the url element holds alternate links; the key is   *)
(* absent without any, which is alternate = <<>> here.                     *)
(* A body is a byte string: gz says whether it starts with the gzip magic  *)
(* number ("ok": a gzip stream of doc, "bad": the magic number and then a  *)
(* stream that cannot be read), doc is the text it holds.                  *)

HasAlternate(d) == d.alternate # <<>>

Locs == {ChildUrl, PageUrl, OtherUrl}

AltLists == {<<>>, <<Page2Url, OtherUrl>>}

Entries == [loc : Locs, alternate : AltLists]

SeqsUpTo(S, n) == UNION {[1..k -> S] : k \in 0..n}

Row == [href : BOOLEAN, text3 : BOOLEAN]

Doc(kind, entries, rows) == [kind |-> kind, entries |-> entries, rows |-> rows]

\* sitemap documents: urlset, sitemapindex, and XML with another root
SitemapDocs ==
    {Doc(k, es, <<>>) :
        k \in {"sitemapindex", "urlset", "other"}, es \in SeqsUpTo(Entries, MaxEntries)}

\* a body no XML root can be read from
Malformed == Doc("malformed", <<>>, <<>>)

\* robots files: entries holds the URLs of their "Sitemap:" lines
RobotsDocs ==
    {Doc("robots", es, <<>>) :
        es \in {<<>>,
                <<[loc |-> SeedUrl, alternate |-> <<>>]>>,
                <<[loc |-> ChildUrl, alternate |-> <<>>],
                  [loc |-> OtherUrl, alternate |-> <<>>]>>}}

\* dataset pages: rows are the dataloader rows parse reads (has the row a
\* link, has its link a third text node)
HtmlDocs == {Doc("html", <<>>, rs) : rs \in SeqsUpTo(Row, 1)}

Docs == SitemapDocs \cup {Malformed} \cup RobotsDocs \cup HtmlDocs

Plain(doc)   == [gz |-> "none", doc |-> doc]
Gzipped(doc) == [gz |-> "ok", doc |-> doc]
BadGzip      == [gz |-> "bad", doc |-> Malformed]

Bodies == {Plain(d) : d \in Docs} \cup {Gzipped(d) : d \in Docs} \cup {BadGzip}

\* xml: the response is an XmlResponse
Response(url, xml, body) == [url |-> url, xml |-> xml, body |-> body]

\* Request(url, callback)
Request(url, callback) == [url |-> url, callback |-> callback]

----------------------------------------------------------------------------
(* The library calls of the spider. *)

\* gzip_magic_number(response): the body starts with 1f 8b 08
gzip_magic_number(response) == response.body.gz # "none"

\* gunzip(data): the decompressed bytes; raises when nothing can be read
gunzip(data) ==
    IF data.gz = "ok"
    THEN [raised |-> FALSE, value |-> Plain(data.doc)]
    ELSE [raised |-> TRUE, value |-> data]

\* Sitemap(xmltext): parses the bytes and reads the root's tag; gzip bytes,
\* a robots file and a malformed body have no root, and reading its tag raises
Sitemap(xmltext) ==
    IF xmltext.gz # "none" \/ xmltext.doc.kind \in {"malformed", "robots"}
    THEN [raised |-> TRUE, type |-> "", entries |-> <<>>]
    ELSE [raised |-> FALSE, type |-> xmltext.doc.kind,
          entries |-> xmltext.doc.entries]

\* sitemap_urls_from_robots(response.text, base_url): the URLs of the
\* "Sitemap:" lines, in order; other text has no such line
sitemap_urls_from_robots(response) ==
    IF response.body.gz = "none" /\ response.body.doc.kind = "robots"
    THEN [i \in 1..Len(response.body.doc.entries) |->
              response.body.doc.entries[i].loc]
    ELSE <<>>

----------------------------------------------------------------------------
(* The spider. *)

\* __init__: self._cbs, one (compiled pattern, handler) pair per rule, in order
InitCbs(sitemap_rules) ==
    [i \in 1..Len(sitemap_rules) |->
        [r |-> regex(sitemap_rules[i].r), c |-> sitemap_rules[i].c]]

\* __init__: self._follow, the compiled follow patterns, in order
InitFollow(sitemap_follow) ==
    [i \in 1..Len(sitemap_follow) |-> regex(sitemap_follow[i])]

\* faulty variant: the seeds are bound to the page handler
start_requests_parse ==
    [i \in 1..Len(sitemap_urls) |-> Request(sitemap_urls[i], "parse")]

\* faulty variant: the generator returns after its first request
start_requests_first ==
    IF sitemap_urls = <<>> THEN <<>>
    ELSE <<Request(sitemap_urls[1], "_parse_sitemap")>>

\* start_requests: one request per seed URL, bound to _parse_sitemap
start_requests ==
    [i \in 1..Len(sitemap_urls) |-> Request(sitemap_urls[i], "_parse_sitemap")]

\* faulty variant: the loop starts at the second entry
sitemap_filter_skipfirst(entries) ==
    [i \in 1..(Len(entries) - 1) |-> entries[i + 1]]

\* sitemap_filter(entries): yields every entry
sitemap_filter(entries) == [i \in 1..Len(entries) |-> entries[i]]

\* faulty variant: the alternates are yielded whatever the flag says
RECURSIVE iterloc_noflag(_, _)
iterloc_noflag(it, alt) ==
    IF it = <<>> THEN <<>>
    ELSE <<Head(it).loc>> \o Head(it).alternate \o iterloc_noflag(Tail(it), alt)

\* faulty variant: the alternates are yielded before the loc
RECURSIVE iterloc_altfirst(_, _)
iterloc_altfirst(it, alt) ==
    IF it = <<>> THEN <<>>
    ELSE LET d == Head(it)
         IN  (IF alt /\ HasAlternate(d) THEN d.alternate ELSE <<>>)
             \o <<d.loc>>
             \o iterloc_altfirst(Tail(it), alt)

\* iterloc(it, alt): d["loc"] of every entry, followed by its alternates
\* when alt is set and the entry has the key
RECURSIVE iterloc(_, _)
iterloc(it, alt) ==
    IF it = <<>> THEN <<>>
    ELSE LET d == Head(it)
         IN  <<d.loc>>
             \o (IF alt /\ HasAlternate(d) THEN d.alternate ELSE <<>>)
             \o iterloc(Tail(it), alt)

\* _get_sitemap_body(response): tag "bytes" with the body returned, "None",
\* or "raise" when gunzip raises
_get_sitemap_body(response) ==
    IF response.xml
    THEN [tag |-> "bytes", value |-> response.body]
    ELSE IF gzip_magic_number(response)
    THEN LET g == gunzip(response.body)
         IN  IF g.raised
             THEN [tag |-> "raise", value |-> response.body]
             ELSE [tag |-> "bytes", value |-> g.value]
    ELSE IF \/ endswith(response.url, <<".xml">>)
            \/ endswith(response.url, <<".xml", ".gz">>)
    THEN [tag |-> "bytes", value |-> response.body]
    ELSE [tag |-> "None", value |-> response.body]

\* faulty variant: the loop over the rules lacks its break
RECURSIVE dispatch_nobreak(_, _)
dispatch_nobreak(loc, k) ==
    IF k > Len(_cbs) THEN <<>>
    ELSE (IF search(_cbs[k].r, loc) THEN <<Request(loc, _cbs[k].c)>> ELSE <<>>)
         \o dispatch_nobreak(loc, k + 1)

\* lines 67-71: the rules from the k-th on are tried in order; the first whose
\* pattern matches yields the request and ends the loop
RECURSIVE dispatch(_, _)
dispatch(loc, k) ==
    IF k > Len(_cbs) THEN <<>>
    ELSE IF search(_cbs[k].r, loc)
    THEN <<Request(loc, _cbs[k].c)>>
    ELSE dispatch(loc, k + 1)

\* faulty variant: index locations are requested without the follow test
follow_ungated(loc) == <<Request(loc, "_parse_sitemap")>>

\* faulty variant: a followed index location that a content rule matches is bound to
\* the rule's handler
follow_as_content(loc) ==
    IF \E i \in 1..Len(_follow) : search(_follow[i], loc)
    THEN IF dispatch(loc, 1) # <<>>
         THEN dispatch(loc, 1)
         ELSE <<Request(loc, "_parse_sitemap")>>
    ELSE <<>>

\* lines 62-64: the request of an index location, when a follow pattern matches
follow(loc) ==
    IF \E i \in 1..Len(_follow) : search(_follow[i], loc)
    THEN <<Request(loc, "_parse_sitemap")>>
    ELSE <<>>

\* the requests yielded over the locations locs, in order
RECURSIVE follow_all(_)
follow_all(locs) ==
    IF locs = <<>> THEN <<>> ELSE follow(Head(locs)) \o follow_all(Tail(locs))

RECURSIVE dispatch_all(_)
dispatch_all(locs) ==
    IF locs = <<>> THEN <<>>
    ELSE dispatch(Head(locs), 1) \o dispatch_all(Tail(locs))

\* what one call of a callback did: whether it returned or raised, the
\* requests it yielded, in order, the calls it made, what _get_sitemap_body
\* gave it (tag "unused" without the call), the warnings it logged, and the
\* items it yielded
Result(outcome, tasks, calls, body, warnings, items) ==
    [outcome |-> outcome, tasks |-> tasks, calls |-> calls, body |-> body,
     warnings |-> warnings, items |-> items]

Unused == [tag |-> "unused", value |-> Plain(Malformed)]

\* faulty variant: the sitemap URLs of the robots file go through the follow test
robots_branch_gated(response) ==
    Result("returned", follow_all(sitemap_urls_from_robots(response)),
           <<"sitemap_urls_from_robots">>, Unused, 0, <<>>)

\* lines 45-46: one request per sitemap URL of the robots file
robots_branch(response) ==
    LET urls == sitemap_urls_from_robots(response)
    IN  Result("returned",
               [i \in 1..Len(urls) |-> Request(urls[i], "_parse_sitemap")],
               <<"sitemap_urls_from_robots">>, Unused, 0, <<>>)

\* faulty variant: every document that is no Index is taken for a URLSet
body_branch_else_urlset(body) ==
    LET s == Sitemap(body.value)
    IN  IF s.raised
        THEN Result("raised", <<>>, <<"_get_sitemap_body", "Sitemap">>,
                    body, 0, <<>>)
        ELSE LET it == sitemap_filter(s.entries)
                 made == <<"_get_sitemap_body", "Sitemap", "sitemap_filter">>
             IN  IF s.type = "sitemapindex"
                 THEN Result("returned",
                             follow_all(iterloc(it, sitemap_alternate_links)),
                             made \o <<"iterloc">>, body, 0, <<>>)
                 ELSE Result("returned",
                             dispatch_all(iterloc(it, sitemap_alternate_links)),
                             made \o <<"iterloc">>, body, 0, <<>>)

\* lines 57-71: the body is parsed, filtered, and dispatched by the type of
\* the document
body_branch(body) ==
    LET s == Sitemap(body.value)
    IN  IF s.raised
        THEN Result("raised", <<>>, <<"_get_sitemap_body", "Sitemap">>,
                    body, 0, <<>>)
        ELSE LET it == sitemap_filter(s.entries)
                 made == <<"_get_sitemap_body", "Sitemap", "sitemap_filter">>
             IN  IF s.type = "sitemapindex"
                 THEN Result("returned",
                             follow_all(iterloc(it, sitemap_alternate_links)),
                             made \o <<"iterloc">>, body, 0, <<>>)
                 ELSE IF s.type = "urlset"
                 THEN Result("returned",
                             dispatch_all(iterloc(it, sitemap_alternate_links)),
                             made \o <<"iterloc">>, body, 0, <<>>)
                 ELSE Result("returned", <<>>, made, body, 0, <<>>)

\* faulty variant: the return after the warning is missing: Sitemap(None) raises
sitemap_branch_noreturn(response) ==
    LET body == _get_sitemap_body(response)
    IN  IF body.tag = "raise"
        THEN Result("raised", <<>>, <<"_get_sitemap_body">>, body, 0, <<>>)
        ELSE IF body.tag = "None"
        THEN Result("raised", <<>>, <<"_get_sitemap_body", "Sitemap">>,
                    body, 1, <<>>)
        ELSE body_branch(body)

\* faulty variant: a response that is not a sitemap is requested again
sitemap_branch_retry(response) ==
    LET body == _get_sitemap_body(response)
    IN  IF body.tag = "raise"
        THEN Result("raised", <<>>, <<"_get_sitemap_body">>, body, 0, <<>>)
        ELSE IF body.tag = "None"
        THEN Result("returned", <<Request(response.url, "_parse_sitemap")>>,
                    <<"_get_sitemap_body">>, body, 1, <<>>)
        ELSE body_branch(body)

\* lines 48-55: the body is resolved; without one the warning is logged and
\* the generator returns
sitemap_branch(response) ==
    LET body == _get_sitemap_body(response)
    IN  IF body.tag = "raise"
        THEN Result("raised", <<>>, <<"_get_sitemap_body">>, body, 0, <<>>)
        ELSE IF body.tag = "None"
        THEN Result("returned", <<>>, <<"_get_sitemap_body">>, body, 1, <<>>)
        ELSE body_branch(body)

\* faulty variant: a request is not yielded while one for the same URL is
\* outstanding
_parse_sitemap_skip_seen(response) ==
    LET res == IF endswith(response.url, <<"/", "robots", ".txt">>)
               THEN robots_branch(response)
               ELSE sitemap_branch(response)
        fresh(t) == \A k \in 1..Len(pending) :
                        pending[k].url = response.url \/ pending[k].url # t.url
    IN  [res EXCEPT !.tasks = SelectSeq(res.tasks, fresh)]

\* faulty variant: the spider remembers that a call has raised and then yields nothing
_parse_sitemap_abort(response) ==
    IF \E i \in 1..Len(log) : log[i].result.outcome = "raised"
    THEN Result("returned", <<>>, <<>>, Unused, 0, <<>>)
    ELSE IF endswith(response.url, <<"/", "robots", ".txt">>)
    THEN robots_branch(response)
    ELSE sitemap_branch(response)

\* _parse_sitemap(response)
_parse_sitemap(response) ==
    IF endswith(response.url, <<"/", "robots", ".txt">>)
    THEN robots_branch(response)
    ELSE sitemap_branch(response)

\* lines 134-145: the dataloaders loop; re.sub raises on the None that
\* .get() returns for a link without a third text node
dataloaders_list(rows) ==
    IF \E i \in 1..Len(rows) : rows[i].href /\ ~rows[i].text3
    THEN [raised |-> TRUE, value |-> <<>>]
    ELSE [raised |-> FALSE,
          value |-> SelectSeq(rows, LAMBDA row : row.href)]

\* parse(response): one item, with the name read from the URL's path.  The
\* other fields of the item (description, paper_count, tasks,
\* similar_datasets) are what the page's xpath selections return.
parse(response) ==
    LET dataset_name == lastsplit(urlpath(response.url))
        loaders == dataloaders_list(response.body.doc.rows)
    IN  IF loaders.raised
        THEN Result("raised", <<>>, <<>>, Unused, 0, <<>>)
        ELSE Result("returned", <<>>, <<>>, Unused, 0,
                    <<[dataset_name |-> dataset_name, url |-> response.url,
                       dataloaders |-> loaders.value]>>)

----------------------------------------------------------------------------
(* Configurations and the web. *)

\* sitemap_rules: the shipped list, and lists a subclass may set
\* ("parse_item" is a handler of such a subclass)
RuleLists ==
    {<<[r |-> <<>>, c |-> "parse"]>>,
     <<[r |-> <<"datasets">>, c |-> "parse"]>>,
     <<[r |-> <<"mnist">>, c |-> "parse_item"],
       [r |-> <<"datasets">>, c |-> "parse"]>>,
     <<[r |-> <<"datasets", "/">>, c |-> "parse"],
       [r |-> <<>>, c |-> "parse_item"]>>,
     <<>>}

\* sitemap_follow: the shipped list, and lists a subclass may set
FollowLists ==
    {<<<<"datasets">>>>,
     <<<<"about">>, <<"sitemap">>>>,
     <<>>}

E(loc) == [loc |-> loc, alternate |-> <<>>]
EA(loc, alternate) == [loc |-> loc, alternate |-> alternate]

\* a page without dataloader rows
EmptyPage(url) == Response(url, FALSE, Plain(Doc("html", <<>>, <<>>)))

\* every response the engine may obtain
Responses ==
    {Response(u, x, b) :
        u \in {RobotsUrl, SeedUrl, ChildUrl, OtherUrl}, x \in BOOLEAN, b \in Bodies}

\* the responses a site may serve at each URL of the crawl
SeedResponses ==
    {Response(SeedUrl, TRUE, Plain(Doc("sitemapindex", <<E(ChildUrl)>>, <<>>))),
     Response(SeedUrl, FALSE,
              Gzipped(Doc("sitemapindex", <<E(ChildUrl), E(OtherUrl)>>, <<>>))),
     Response(SeedUrl, TRUE,
              Plain(Doc("sitemapindex", <<E(SeedUrl), E(ChildUrl)>>, <<>>))),
     Response(SeedUrl, FALSE, BadGzip)}

ChildResponses ==
    {Response(ChildUrl, FALSE, Plain(Doc("urlset", <<E(PageUrl)>>, <<>>))),
     Response(ChildUrl, FALSE,
              Gzipped(Doc("urlset",
                          <<EA(PageUrl, <<Page2Url, OtherUrl>>), E(OtherUrl)>>,
                          <<>>))),
     Response(ChildUrl, TRUE, Plain(Malformed))}

RobotsResponses ==
    {Response(RobotsUrl, FALSE, Plain(Doc("robots", <<E(SeedUrl)>>, <<>>))),
     Response(RobotsUrl, FALSE,
              Plain(Doc("robots", <<E(ChildUrl), E(OtherUrl)>>, <<>>)))}

PageResponses ==
    {Response(PageUrl, FALSE, Plain(Doc("html", <<>>, rs))) :
        rs \in {<<>>, <<[href |-> TRUE, text3 |-> TRUE]>>,
                <<[href |-> TRUE, text3 |-> FALSE]>>}}

Sites ==
    {[u \in Urls |->
        IF u = SeedUrl THEN a
        ELSE IF u = ChildUrl THEN b
        ELSE IF u = RobotsUrl THEN c
        ELSE IF u = PageUrl THEN d
        ELSE EmptyPage(u)] :
        a \in SeedResponses, b \in ChildResponses, c \in RobotsResponses,
        d \in PageResponses}

SeedLists == {<<SeedUrl>>, <<RobotsUrl, SeedUrl>>}

----------------------------------------------------------------------------
(* The crawl: the spider's callbacks driven by the fetch engine. *)

Remove(seq, i) == SubSeq(seq, 1, i - 1) \o SubSeq(seq, i + 1, Len(seq))

Call(request, response, result) ==
    [request |-> request, response |-> response, result |-> result]

\* the state after __init__
Configured(rules, follows) ==
    /\ _cbs = InitCbs(rules)
    /\ _follow = InitFollow(follows)
    /\ started = FALSE
    /\ pending = <<>>
    /\ log = <<>>
    /\ records = <<>>

Init ==
    /\ sitemap_urls \in SeedLists
    /\ sitemap_alternate_links \in BOOLEAN
    /\ \E rules \in RuleLists, follows \in FollowLists : Configured(rules, follows)
    /\ web \in Sites

\* the engine consumes start_requests
StartRequests ==
    /\ ~started
    /\ started' = TRUE
    /\ pending' = pending \o start_requests
    /\ UNCHANGED <<config, web, log, records>>

\* faulty variant: a rule is taken off self._cbs once it has given a request
Deliver_consumes(i, cb, result) ==
    /\ started
    /\ i \in DOMAIN pending
    /\ pending[i].callback = cb
    /\ Len(log) < MaxFetches
    /\ pending' = Remove(pending, i) \o result.tasks
    /\ records' = records \o result.items
    /\ log' = Append(log, Call(pending[i], web[pending[i].url], result))
    /\ _cbs' = IF result.tasks # <<>> /\ _cbs # <<>> THEN Tail(_cbs) ELSE _cbs
    /\ UNCHANGED <<sitemap_urls, sitemap_alternate_links, _follow, web, started>>

\* the engine answers the i-th outstanding request with callback name cb by
\* calling handler on the response obtained at its URL, and takes what the
\* callback yields
Deliver(i, cb, result) ==
    /\ started
    /\ i \in DOMAIN pending
    /\ pending[i].callback = cb
    /\ Len(log) < MaxFetches
    /\ pending' = Remove(pending, i) \o result.tasks
    /\ records' = records \o result.items
    /\ log' = Append(log, Call(pending[i], web[pending[i].url], result))
    /\ UNCHANGED <<config, web, started>>

DeliverSitemap(i) ==
    /\ i \in DOMAIN pending
    /\ Deliver(i, "_parse_sitemap", _parse_sitemap(web[pending[i].url]))

DeliverPage(i) ==
    /\ i \in DOMAIN pending
    /\ Deliver(i, "parse", parse(web[pending[i].url]))

Next ==
    \/ StartRequests
    \/ \E i \in 1..Len(pending) : DeliverSitemap(i)
    \/ \E i \in 1..Len(pending) : DeliverPage(i)

Spec == Init /\ [][Next]_vars

----------------------------------------------------------------------------
(* One call of _parse_sitemap, on any response and under any configuration: *)
(* the spider is seeded with the response's URL and start_requests has been *)
(* consumed.                                                                *)

HandlerInit ==
    /\ sitemap_alternate_links \in BOOLEAN
    /\ \E rules \in RuleLists, follows \in FollowLists :
          /\ _cbs = InitCbs(rules)
          /\ _follow = InitFollow(follows)
    /\ \E r \in Responses :
          /\ sitemap_urls = <<r.url>>
          /\ web = [u \in Urls |-> IF u = r.url THEN r ELSE EmptyPage(u)]
    /\ started = TRUE
    /\ pending = start_requests
    /\ log = <<>>
    /\ records = <<>>

HandlerNext == log = <<>> /\ \E i \in 1..Len(pending) : DeliverSitemap(i)

HandlerSpec == HandlerInit /\ [][HandlerNext]_vars

----------------------------------------------------------------------------
(* Properties.  They are stated over the log of the callbacks invoked, with *)
(* what each claim expects written out anew from the configuration and the  *)
(* document, not with the operators of the spider above.                    *)

Range(seq) == {seq[i] : i \in 1..Len(seq)}

RECURSIVE FlatMap(_, _)
FlatMap(Op(_), seq) ==
    IF seq = <<>> THEN <<>> ELSE Op(Head(seq)) \o FlatMap(Op, Tail(seq))

\* the calls of _parse_sitemap so far
SitemapCalls == {i \in 1..Len(log) : log[i].request.callback = "_parse_sitemap"}

\* the i-th call parsed a document of this kind and went through its locations
Dispatched(i, kind) ==
    /\ i \in SitemapCalls
    /\ log[i].result.calls =
           <<"_get_sitemap_body", "Sitemap", "sitemap_filter", "iterloc">>
    /\ log[i].result.body.value.doc.kind = kind

DocEntries(i) == log[i].result.body.value.doc.entries

\* what an entry contributes to dispatch: its loc, then its alternates when
\* the flag is on
Contribution(d) ==
    IF sitemap_alternate_links THEN <<d.loc>> \o d.alternate ELSE <<d.loc>>

Locations(i) == FlatMap(Contribution, DocEntries(i))

MatchesRule(k, loc) == search(_cbs[k].r, loc)
MatchesContent(loc) == \E k \in 1..Len(_cbs) : MatchesRule(k, loc)
MatchesFollow(loc) == \E k \in 1..Len(_follow) : search(_follow[k], loc)

FirstRule(loc) ==
    CHOOSE k \in 1..Len(_cbs) :
        MatchesRule(k, loc) /\ \A j \in 1..(k - 1) : ~MatchesRule(j, loc)

ContentDecision(loc) ==
    IF MatchesContent(loc) THEN <<Request(loc, _cbs[FirstRule(loc)].c)>> ELSE <<>>

RecurseDecision(loc) ==
    IF MatchesFollow(loc) THEN <<Request(loc, "_parse_sitemap")>> ELSE <<>>

TaskUrls(i) ==
    [j \in 1..Len(log[i].result.tasks) |-> log[i].result.tasks[j].url]

\* C1: of a URLSet document, every location iterated yields at most one
\* request: the one bound to the handler of the first matching content rule,
\* and none when no rule matches; later rules are not tried.
C1_FirstMatchWins ==
    \A i \in 1..Len(log) :
        Dispatched(i, "urlset") =>
            log[i].result.tasks = FlatMap(ContentDecision, Locations(i))

\* a URLSet call with a location that two rules with different handlers match,
\* bound to the first, and a location no rule matches
C1_Witness ==
    \E i \in 1..Len(log) :
        /\ Dispatched(i, "urlset")
        /\ \E loc \in Range(Locations(i)) :
              /\ \E j, k \in 1..Len(_cbs) :
                    j < k /\ MatchesRule(j, loc) /\ MatchesRule(k, loc)
                          /\ _cbs[j].c # _cbs[k].c
              /\ Cardinality({t \in 1..Len(log[i].result.tasks) :
                                 log[i].result.tasks[t].url = loc}) = 1
        /\ \E loc \in Range(Locations(i)) : ~MatchesContent(loc)
        /\ Len(log[i].result.tasks) < Len(Locations(i))

\* C2: of an Index document, a location yields a recurse request if and only
\* if some follow pattern matches it; when none of its locations matches, the
\* document yields no request.
C2_FollowGate ==
    \A i \in 1..Len(log) :
        Dispatched(i, "sitemapindex") =>
            /\ log[i].result.tasks = FlatMap(RecurseDecision, Locations(i))
            /\ (\A loc \in Range(Locations(i)) : ~MatchesFollow(loc))
                   => log[i].result.tasks = <<>>

\* an Index call that follows one location and drops another
C2_Witness ==
    \E i \in 1..Len(log) :
        /\ Dispatched(i, "sitemapindex")
        /\ \E loc \in Range(Locations(i)) : MatchesFollow(loc)
        /\ \E loc \in Range(Locations(i)) :
              ~MatchesFollow(loc) /\ loc \notin Range(TaskUrls(i))
        /\ log[i].result.tasks # <<>>

\* C3: every request made from a location of an Index document is bound to
\* _parse_sitemap, never to a content handler, also when the location matches
\* a content rule.
C3_IndexNeverContent ==
    \A i \in 1..Len(log) :
        Dispatched(i, "sitemapindex") =>
            \A t \in Range(log[i].result.tasks) :
                /\ t.callback = "_parse_sitemap"
                /\ t.url \in Range(Locations(i))

\* an Index call that follows a location a content rule matches
C3_Witness ==
    \E i \in 1..Len(log) :
        /\ Dispatched(i, "sitemapindex")
        /\ \E t \in Range(log[i].result.tasks) :
              MatchesContent(t.url) /\ t.callback = "_parse_sitemap"

\* the locations of the document that the rules of its kind accept
Accepted(i) ==
    IF log[i].result.body.value.doc.kind = "urlset"
    THEN SelectSeq(Locations(i), MatchesContent)
    ELSE SelectSeq(Locations(i), MatchesFollow)

\* C4: with the alternate-link flag off every entry contributes its loc alone
\* to dispatch, with the flag on its loc followed by its alternates; an entry
\* with one loc and two alternates, all matching content rules, gives one
\* request with the flag off and three with it on.
C4_AlternateFlag ==
    \A i \in 1..Len(log) :
        Dispatched(i, "urlset") \/ Dispatched(i, "sitemapindex") =>
            /\ TaskUrls(i) = Accepted(i)
            /\ ~sitemap_alternate_links =>
                   /\ Len(log[i].result.tasks) <= Len(DocEntries(i))
                   /\ \A u \in Range(TaskUrls(i)) :
                          \E d \in Range(DocEntries(i)) : d.loc = u
            /\ ( /\ Dispatched(i, "urlset")
                 /\ Len(DocEntries(i)) = 1
                 /\ Len(DocEntries(i)[1].alternate) = 2
                 /\ MatchesContent(DocEntries(i)[1].loc)
                 /\ \A u \in Range(DocEntries(i)[1].alternate) : MatchesContent(u) )
                   => Len(log[i].result.tasks)
                          = IF sitemap_alternate_links THEN 3 ELSE 1

\* flag off: an entry with two alternates, all matching, has given one request
C4_Witness ==
    \E i \in 1..Len(log) :
        /\ Dispatched(i, "urlset")
        /\ ~sitemap_alternate_links
        /\ Len(DocEntries(i)) = 1
        /\ Len(DocEntries(i)[1].alternate) = 2
        /\ MatchesContent(DocEntries(i)[1].loc)
        /\ \A u \in Range(DocEntries(i)[1].alternate) : MatchesContent(u)
        /\ TaskUrls(i) = <<DocEntries(i)[1].loc>>

\* flag on: the same entry has given three requests, loc first
C4_ReachedFlagOn ==
    \E i \in 1..Len(log) :
        /\ Dispatched(i, "urlset")
        /\ sitemap_alternate_links
        /\ Len(DocEntries(i)) = 1
        /\ Len(DocEntries(i)[1].alternate) = 2
        /\ TaskUrls(i) = <<DocEntries(i)[1].loc>> \o DocEntries(i)[1].alternate

----------------------------------------------------------------------------

IsRobots(url) ==
    /\ Len(url) >= 3
    /\ url[Len(url) - 2] = "/"
    /\ url[Len(url) - 1] = "robots"
    /\ url[Len(url)] = ".txt"

XmlSuffix(url) ==
    \/ url[Len(url)] = ".xml"
    \/ (Len(url) >= 2 /\ url[Len(url) - 1] = ".xml" /\ url[Len(url)] = ".gz")

HasMagic(body) == body.gz \in {"ok", "bad"}

\* the calls of _parse_sitemap on a response that is no robots file
ResolverCalls == {i \in SitemapCalls : ~IsRobots(log[i].response.url)}

\* C5: the Body Resolver decides in four ranked cases, and every response
\* falls in exactly one: an XML response gives its raw body (also one that
\* starts with the gzip magic number); else a body with the magic number
\* gives its decompression; else a URL ending in .xml or .xml.gz gives the raw
\* body; else None.
C5_FourWayDecision ==
    \A i \in ResolverCalls :
        LET r == log[i].response
            b == log[i].result.body
        IN  IF r.xml
            THEN b.tag = "bytes" /\ b.value = r.body
            ELSE IF HasMagic(r.body)
            THEN b.tag = "bytes" /\ b.value.gz = "none"
                                 /\ Gzipped(b.value.doc) = r.body
            ELSE IF XmlSuffix(r.url)
            THEN b.tag = "bytes" /\ b.value = r.body
            ELSE b.tag = "None"

\* the decision of C5 on every response but those whose body has the magic
\* number and cannot be decompressed, where gunzip raises
C5_ExceptUnreadableGzip ==
    \A i \in ResolverCalls :
        LET r == log[i].response
            b == log[i].result.body
        IN  IF r.xml
            THEN b.tag = "bytes" /\ b.value = r.body
            ELSE IF r.body.gz = "ok"
            THEN b.tag = "bytes" /\ b.value.gz = "none"
                                 /\ Gzipped(b.value.doc) = r.body
            ELSE IF r.body.gz = "bad"
            THEN b.tag = "raise" /\ log[i].result.outcome = "raised"
            ELSE IF XmlSuffix(r.url)
            THEN b.tag = "bytes" /\ b.value = r.body
            ELSE b.tag = "None"

\* the sitemap URLs a robots response refers to
Referenced(r) ==
    IF ~HasMagic(r.body) /\ r.body.doc.kind = "robots"
    THEN [j \in 1..Len(r.body.doc.entries) |-> r.body.doc.entries[j].loc]
    ELSE <<>>

\* C6: on a response whose URL ends in /robots.txt, _parse_sitemap calls
\* neither the Body Resolver nor the Sitemap Parser and yields exactly one
\* request per sitemap URL of the robots text, each bound to _parse_sitemap,
\* whatever the follow patterns; it yields no content request.
C6_RobotsOnlyExtracts ==
    \A i \in SitemapCalls :
        IsRobots(log[i].response.url) =>
            LET res == log[i].result
                ref == Referenced(log[i].response)
            IN  /\ res.calls = <<"sitemap_urls_from_robots">>
                /\ res.body.tag = "unused"
                /\ res.outcome = "returned"
                /\ res.warnings = 0
                /\ res.tasks = [j \in 1..Len(ref) |->
                                   Request(ref[j], "_parse_sitemap")]

\* a robots call that requested a sitemap URL no follow pattern matches
C6_Witness ==
    \E i \in SitemapCalls :
        /\ IsRobots(log[i].response.url)
        /\ Len(log[i].result.tasks) = 2
        /\ \E t \in Range(log[i].result.tasks) : ~MatchesFollow(t.url)

\* a call that is no robots file, no XML response, without the magic number
\* and without the .xml or .xml.gz suffix
NotASitemap(i) ==
    /\ i \in ResolverCalls
    /\ ~log[i].response.xml
    /\ ~HasMagic(log[i].response.body)
    /\ ~XmlSuffix(log[i].response.url)

\* C7: when the Body Resolver returns None, _parse_sitemap logs a warning,
\* yields no request, does not call the Sitemap Parser and returns normally.
C7_NoneIsDropped ==
    \A i \in SitemapCalls :
        NotASitemap(i) \/ log[i].result.body.tag = "None" =>
            /\ NotASitemap(i)
            /\ log[i].result.body.tag = "None"
            /\ log[i].result.warnings = 1
            /\ log[i].result.tasks = <<>>
            /\ log[i].result.calls = <<"_get_sitemap_body">>
            /\ log[i].result.outcome = "returned"

\* a dropped response whose body is a urlset with locations the rules match
C7_Witness ==
    \E i \in SitemapCalls :
        /\ NotASitemap(i)
        /\ log[i].result.warnings = 1
        /\ log[i].response.body.doc.kind = "urlset"
        /\ \E d \in Range(log[i].response.body.doc.entries) : MatchesContent(d.loc)
        /\ log[i].result.tasks = <<>>

\* C8: a body that cannot be decompressed or parsed does not make
\* _parse_sitemap raise: the call ends its branch with no request and
\* returns.
C8_ParseFailureContained ==
    \A i \in SitemapCalls : log[i].result.outcome = "returned"

\* what raises in _parse_sitemap: gunzip on an unreadable stream, and Sitemap
\* on bytes without an XML root; nothing is yielded before either
C8_RaisesOnlyBeforeYield ==
    \A i \in SitemapCalls :
        log[i].result.outcome = "raised" =>
            /\ log[i].result.tasks = <<>>
            /\ \/ log[i].result.body.tag = "raise"
               \/ /\ log[i].result.body.tag = "bytes"
                  /\ \/ HasMagic(log[i].result.body.value)
                     \/ log[i].result.body.value.doc.kind \in {"malformed", "robots"}

----------------------------------------------------------------------------

\* a call that dropped or failed its branch: it raised, or it logged the
\* warning and returned
Failed(c) == c.result.outcome = "raised" \/ c.result.warnings > 0

----------------------------------------------------------------------------

\* the requests yielded by the callbacks so far, in the order yielded
RECURSIVE IssuedUpTo(_)
IssuedUpTo(n) ==
    IF n = 0 THEN <<>> ELSE IssuedUpTo(n - 1) \o log[n].result.tasks

AllIssued == IssuedUpTo(Len(log))

IsPrefix(s, t) == Len(s) <= Len(t) /\ SubSeq(t, 1, Len(s)) = s

\* name is the final path segment of url
FinalSegment(url, name) ==
    /\ "/" \notin Range(name)
    /\ Len(name) < Len(url)
    /\ url[Len(url) - Len(name)] = "/"
    /\ SubSeq(url, Len(url) - Len(name) + 1, Len(url)) = name

\* the round trip: the seed is a sitemapindex listing one child that a follow
\* pattern matches, the child a urlset listing one page whose first matching
\* content rule is bound to parse
RoundTrip ==
    /\ sitemap_urls = <<SeedUrl>>
    /\ web[SeedUrl].xml
    /\ web[SeedUrl].body = Plain(Doc("sitemapindex", <<E(ChildUrl)>>, <<>>))
    /\ MatchesFollow(ChildUrl)
    /\ ~web[ChildUrl].xml
    /\ web[ChildUrl].body = Plain(Doc("urlset", <<E(PageUrl)>>, <<>>))
    /\ MatchesContent(PageUrl)
    /\ _cbs[FirstRule(PageUrl)].c = "parse"

ChildRequest == Request(ChildUrl, "_parse_sitemap")
PageRequest == Request(PageUrl, "parse")

\* the traversal of the round trip: two requests, the child's and then the
\* page's, the page's yielded by the call on the child's response
RoundTripOrder ==
    /\ IsPrefix(AllIssued, <<ChildRequest, PageRequest>>)
    /\ \A i \in 1..Len(log) :
          /\ PageRequest \in Range(log[i].result.tasks)
                => log[i].request = ChildRequest
          /\ log[i].request = PageRequest
                => \E j \in 1..(i - 1) : log[j].request = ChildRequest
    /\ (started /\ pending = <<>>) => AllIssued = <<ChildRequest, PageRequest>>

\* C10: in the round trip the driver issues exactly two requests in order,
\* the child sitemap's bound to _parse_sitemap and, once the child's response
\* is processed, the page's bound to parse; processing the page yields
\* exactly one record, named after the final path segment of the page's URL,
\* and no request.
C10_RoundTrip ==
    RoundTrip =>
        /\ RoundTripOrder
        /\ \A i \in 1..Len(log) :
              log[i].request = PageRequest =>
                  /\ log[i].result.tasks = <<>>
                  /\ Len(log[i].result.items) = 1
                  /\ log[i].result.items[1].url = PageUrl
                  /\ FinalSegment(PageUrl, log[i].result.items[1].dataset_name)
        /\ (started /\ pending = <<>>) => Len(records) = 1

\* the round trip but for the record: the order of the requests, and one
\* record with the name, or none when parse raises in its dataloaders loop
C10_UpToParseRaising ==
    RoundTrip =>
        /\ RoundTripOrder
        /\ \A i \in 1..Len(log) :
              log[i].request = PageRequest =>
                  /\ log[i].result.tasks = <<>>
                  /\ IF \E row \in Range(log[i].response.body.doc.rows) :
                            row.href /\ ~row.text3
                     THEN log[i].result.outcome = "raised"
                              /\ log[i].result.items = <<>>
                     ELSE /\ Len(log[i].result.items) = 1
                          /\ log[i].result.items[1].url = PageUrl
                          /\ FinalSegment(PageUrl,
                                          log[i].result.items[1].dataset_name)

\* the round trip has run to its end with its record
C10_Reached ==
    /\ RoundTrip
    /\ started /\ pending = <<>>
    /\ Len(log) = 3
    /\ Len(records) = 1
    /\ records[1].dataset_name = <<"mnist">>

----------------------------------------------------------------------------

\* the i-th call yielded request t from a URLSet location whose first
\* matching content rule is bound to t's handler
FromUrlset(i, t) ==
    /\ Dispatched(i, "urlset")
    /\ t \in Range(log[i].result.tasks)
    /\ t.url \in Range(Locations(i))
    /\ MatchesContent(t.url)
    /\ _cbs[FirstRule(t.url)].c = t.callback

\* C11: a content handler only gets requests matched to it: every request
\* bound to a content handler, outstanding or yielded, comes from a location
\* of a URLSet document whose first matching content rule is that handler's;
\* seeds, robots references and Index locations are bound to _parse_sitemap.
C11_ContentOnlyFromUrlset ==
    /\ \A t \in Range(pending) :
          t.callback # "_parse_sitemap" => \E i \in 1..Len(log) : FromUrlset(i, t)
    /\ \A i \in 1..Len(log) :
          /\ log[i].request.callback # "_parse_sitemap"
                => \E j \in 1..(i - 1) : FromUrlset(j, log[i].request)
          /\ \A t \in Range(log[i].result.tasks) :
                t.callback # "_parse_sitemap" => FromUrlset(i, t)
    /\ (started /\ log = <<>>) =>
          \A t \in Range(pending) : t.callback = "_parse_sitemap"

\* a crawl in which a robots reference and an Index location were requested
\* and the page handler was called and yielded its item
C11_Witness ==
    /\ \E i \in 1..Len(log) :
          /\ log[i].request.callback = "parse"
          /\ log[i].result.items # <<>>
    /\ \E i \in 1..Len(log) :
          /\ IsRobots(log[i].response.url) /\ log[i].result.tasks # <<>>
    /\ \E i \in 1..Len(log) :
          Dispatched(i, "sitemapindex") /\ log[i].result.tasks # <<>>

\* C12: start_requests yields exactly one request per seed URL, in the order
\* configured, each bound to _parse_sitemap, and nothing else.
C12_Seeding ==
    [][(~started /\ started') =>
          /\ pending' = pending \o
                 [i \in 1..Len(sitemap_urls) |->
                     Request(sitemap_urls[i], "_parse_sitemap")]
          /\ pending = <<>>
          /\ log' = log /\ records' = records]_vars

\* both seeds are outstanding, robots.txt first
C12_Witness ==
    /\ started
    /\ log = <<>>
    /\ Len(sitemap_urls) = 2
    /\ pending = <<Request(RobotsUrl, "_parse_sitemap"),
                   Request(SeedUrl, "_parse_sitemap")>>

----------------------------------------------------------------------------

\* the engine answers requests bound to these callbacks
Deliverable(t) == t.callback \in {"_parse_sitemap", "parse"}

\* every request the engine answers has been answered
Quiescent == started /\ \A t \in Range(pending) : ~Deliverable(t)

Count(seq, x) == Cardinality({i \in 1..Len(seq) : seq[i] = x})

SameBag(s, t) ==
    /\ Len(s) = Len(t)
    /\ \A x \in Range(s) \cup Range(t) : Count(s, x) = Count(t, x)

\* the crawl with the oldest outstanding request answered first: the requests
\* yielded and the order of the calls, and whether it ended within fuel calls
RECURSIVE InOrder(_, _, _, _)
InOrder(queue, issued, order, fuel) ==
    LET D == {k \in 1..Len(queue) : Deliverable(queue[k])}
    IN  IF D = {}
        THEN [done |-> TRUE, issued |-> issued, order |-> order]
        ELSE IF fuel = 0
        THEN [done |-> FALSE, issued |-> issued, order |-> order]
        ELSE LET k == CHOOSE k \in D : \A j \in D : k <= j
                 res == IF queue[k].callback = "_parse_sitemap"
                        THEN _parse_sitemap(web[queue[k].url])
                        ELSE parse(web[queue[k].url])
             IN  InOrder(Remove(queue, k) \o res.tasks, issued \o res.tasks,
                         Append(order, queue[k]), fuel - 1)

Called == [i \in 1..Len(log) |-> log[i].request]

\* C13: the order in which the engine answers the outstanding requests does
\* not change the outcome: a crawl that has answered every request has
\* yielded the same requests, each as many times, as the crawl over the same
\* documents that answers the oldest request first, and called the callbacks
\* on the same requests.
C13_OrderIndependent ==
    Quiescent =>
        LET ref == InOrder(start_requests, <<>>, <<>>, Len(log))
        IN  /\ ref.done
            /\ SameBag(AllIssued, ref.issued)
            /\ SameBag(Called, ref.order)

\* a finished crawl that answered its requests in another order than oldest
\* first, and yielded requests both for sitemaps and for pages
C13_Witness ==
    /\ Quiescent
    /\ Called # InOrder(start_requests, <<>>, <<>>, Len(log)).order
    /\ \E t \in Range(AllIssued) : t.callback = "_parse_sitemap"
    /\ \E t \in Range(AllIssued) : t.callback = "parse"

----------------------------------------------------------------------------

\* C14: the rule lists are read-only after construction: no step of the
\* traversal changes the contents or the order of self._cbs or self._follow,
\* or the alternate-link flag.
C14_RulesReadOnly ==
    [][/\ _cbs' = _cbs
       /\ _follow' = _follow
       /\ sitemap_alternate_links' = sitemap_alternate_links]_vars

\* rule lists of two entries each, after a robots call, a URLSet call that
\* matched a rule, and a call of parse
C14_Witness ==
    /\ Len(_cbs) = 2 /\ Len(_follow) = 2
    /\ \E i \in 1..Len(log) : IsRobots(log[i].response.url)
    /\ \E i \in 1..Len(log) :
          Dispatched(i, "urlset") /\ log[i].result.tasks # <<>>
    /\ \E i \in 1..Len(log) : log[i].request.callback = "parse"

----------------------------------------------------------------------------
(* The crawl under fair delivery.  A call is made in two steps, the engine   *)
(* calling the callback on the response and then taking what the call       *)
(* yielded, and log keeps a call only between the two: a traversal that     *)
(* never ends is then a cycle of distinct states.                           *)

\* a site whose Index documents may refer to each other: the one at OtherUrl
\* refers back to the seed Index
OtherResponses ==
    {EmptyPage(OtherUrl),
     Response(OtherUrl, TRUE, Plain(Doc("sitemapindex", <<E(SeedUrl)>>, <<>>)))}

LiveSites ==
    {[s EXCEPT ![OtherUrl] = o] :
        s \in {t \in Sites : Len(t[PageUrl].body.doc.rows) = 1},
        o \in OtherResponses}

\* the state after __init__ of the shipped rules and alternate flag, with any
\* seed list and follow list
LiveInit ==
    /\ sitemap_urls \in SeedLists
    /\ sitemap_alternate_links = FALSE
    /\ \E follows \in FollowLists :
          Configured(<<[r |-> <<>>, c |-> "parse"]>>, follows)
    /\ web \in LiveSites

\* the engine calls the callback named cb on the response to the i-th
\* outstanding request
Begin(i, cb, result) ==
    /\ started
    /\ log = <<>>
    /\ i \in DOMAIN pending
    /\ pending[i].callback = cb
    /\ pending' = Remove(pending, i)
    /\ log' = <<Call(pending[i], web[pending[i].url], result)>>
    /\ UNCHANGED <<config, web, started, records>>

BeginSitemap(i) ==
    /\ i \in DOMAIN pending
    /\ Begin(i, "_parse_sitemap", _parse_sitemap(web[pending[i].url]))

BeginPage(i) ==
    /\ i \in DOMAIN pending
    /\ Begin(i, "parse", parse(web[pending[i].url]))

\* the engine takes what the call yielded
Take ==
    /\ log # <<>>
    /\ pending' = pending \o log[1].result.tasks
    /\ records' = records \o log[1].result.items
    /\ log' = <<>>
    /\ UNCHANGED <<config, web, started>>

LiveNext ==
    \/ StartRequests
    \/ \E i \in 1..Len(pending) : BeginSitemap(i)
    \/ \E i \in 1..Len(pending) : BeginPage(i)
    \/ Take

\* every outstanding request is answered in the end, and what a call yields
\* is taken
LiveSpec ==
    /\ LiveInit
    /\ [][LiveNext]_vars
    /\ WF_vars(StartRequests)
    /\ WF_vars(Take)
    /\ SF_vars(\E i \in 1..Len(pending) : BeginSitemap(i))
    /\ SF_vars(\E i \in 1..Len(pending) : BeginPage(i))

\* no request bound to _parse_sitemap is outstanding
SitemapDone ==
    /\ started
    /\ log = <<>>
    /\ \A t \in Range(pending) : t.callback # "_parse_sitemap"

\* the sitemap at u refers to v, and the spider would request v: a robots
\* file refers to its sitemap URLs, an Index document to those of its
\* locations that a follow pattern matches
Refers(u, v) ==
    IF IsRobots(u)
    THEN v \in Range(Referenced(web[u]))
    ELSE /\ web[u].body.doc.kind = "sitemapindex"
         /\ MatchesFollow(v)
         /\ \E d \in Range(web[u].body.doc.entries) :
               \/ d.loc = v
               \/ sitemap_alternate_links /\ v \in Range(d.alternate)

RECURSIVE ReachedFrom(_, _)
ReachedFrom(S, n) ==
    IF n = 0 THEN S
    ELSE ReachedFrom(S \cup {v \in Urls : \E u \in S : Refers(u, v)}, n - 1)

\* no sitemap refers back to itself, directly or through other sitemaps
AcyclicReferences ==
    \A u \in Urls :
        u \notin ReachedFrom({v \in Urls : Refers(u, v)}, Cardinality(Urls))

\* C15 as stated: under fair delivery the traversal reaches a state without
\* outstanding sitemap request, whatever the documents, Indexes that refer
\* to themselves included.
C15_AlwaysTerminates == <>SitemapDone

\* C15 as amended: under fair delivery, when no sitemap refers back to itself
\* through robots references and followed Index locations, the traversal
\* reaches a state without outstanding sitemap request.
C15_TerminatesIfAcyclic == AcyclicReferences ~> SitemapDone

\* a traversal over acyclic references that went from the seed Index through
\* its child to a page, and has no sitemap request left
C15_Witness ==
    /\ AcyclicReferences
    /\ SitemapDone
    /\ sitemap_urls = <<SeedUrl>>
    /\ web[SeedUrl].body.doc.kind = "sitemapindex"
    /\ records # <<>>

\* an Index that a follow pattern leads back to is requested again by its
\* own call
C15_SelfReference ==
    /\ ~AcyclicReferences
    /\ Refers(SeedUrl, SeedUrl)
    /\ log # <<>>
    /\ log[1].request = Request(SeedUrl, "_parse_sitemap")
    /\ log[1].request \in Range(log[1].result.tasks)

----------------------------------------------------------------------------

\* the requests that dispatching the parsed entries themselves gives
Direct(i) ==
    IF log[i].result.body.value.doc.kind = "urlset"
    THEN FlatMap(ContentDecision, Locations(i))
    ELSE FlatMap(RecurseDecision, Locations(i))

\* the i-th call parsed a document
Parsed(i) ==
    /\ i \in SitemapCalls
    /\ Len(log[i].result.calls) >= 2
    /\ log[i].result.calls[2] = "Sitemap"
    /\ log[i].result.outcome = "returned"

\* C16: sitemap_filter as shipped gives back every entry of the parsed
\* document once, in order and unaltered, so a call yields the requests that
\* dispatching the parsed entries gives; the filter is called after Sitemap and
\* before the locations are iterated, for Index and URLSet documents alike.
C16_FilterIsIdentity ==
    \A i \in 1..Len(log) :
        /\ Parsed(i) =>
              /\ sitemap_filter(DocEntries(i)) = DocEntries(i)
              /\ log[i].result.calls[3] = "sitemap_filter"
        /\ \A kind \in {"sitemapindex", "urlset"} :
              Dispatched(i, kind) =>
                  /\ log[i].result.calls[4] = "iterloc"
                  /\ log[i].result.tasks = Direct(i)

\* a call on a document of two different entries that yielded a request for
\* each, of either kind under some configuration
C16_Witness ==
    \E i \in 1..Len(log) :
        /\ Dispatched(i, "urlset") \/ Dispatched(i, "sitemapindex")
        /\ Len(DocEntries(i)) = 2
        /\ DocEntries(i)[1] # DocEntries(i)[2]
        /\ ~sitemap_alternate_links
        /\ TaskUrls(i) = <<DocEntries(i)[1].loc, DocEntries(i)[2].loc>>

----------------------------------------------------------------------------

\* the configuration the class ships: sitemap_rules = [("", "parse")] and
\* sitemap_follow = ["datasets"]
ShippedConfiguration ==
    /\ _cbs = <<[r |-> <<>>, c |-> "parse"]>>
    /\ _follow = <<<<"datasets">>>>

\* the URL contains "datasets"
HasDatasets(loc) == "datasets" \in Range(loc)

\* C17: under the shipped configuration the empty pattern is found in every
\* URL, so a URLSet document yields one request bound to parse for each of
\* its locations, none dropped; of an Index document the locations that
\* contain "datasets" are requested and the others are not.
C17_ShippedConfiguration ==
    ShippedConfiguration =>
        /\ \A u \in Urls : search(_cbs[1].r, u)
        /\ \A i \in 1..Len(log) :
              /\ Dispatched(i, "urlset") =>
                    log[i].result.tasks =
                        [j \in 1..Len(Locations(i)) |->
                            Request(Locations(i)[j], "parse")]
              /\ Dispatched(i, "sitemapindex") =>
                    LET kept == SelectSeq(Locations(i), HasDatasets)
                    IN  log[i].result.tasks =
                            [j \in 1..Len(kept) |->
                                Request(kept[j], "_parse_sitemap")]

\* shipped configuration: a URLSet call that yielded a request bound to parse
\* for a location without "datasets" and for one with it
C17_Witness ==
    /\ ShippedConfiguration
    /\ \E i \in 1..Len(log) :
          /\ Dispatched(i, "urlset")
          /\ Request(OtherUrl, "parse") \in Range(log[i].result.tasks)
          /\ Request(PageUrl, "parse") \in Range(log[i].result.tasks)

\* shipped configuration: an Index call that requested the location with
\* "datasets" and dropped the one without
C17_ReachedIndex ==
    /\ ShippedConfiguration
    /\ \E i \in 1..Len(log) :
          /\ Dispatched(i, "sitemapindex")
          /\ OtherUrl \in Range(Locations(i))
          /\ log[i].result.tasks = <<Request(ChildUrl, "_parse_sitemap")>>

----------------------------------------------------------------------------

\* the i-th call resolved a body that parses to a document whose root is
\* neither sitemapindex nor urlset
OtherKind(i) ==
    /\ i \in SitemapCalls
    /\ log[i].result.body.tag = "bytes"
    /\ log[i].result.body.value.gz = "none"
    /\ log[i].result.body.value.doc.kind \in {"other", "html"}

\* C18: a call on a document whose kind is neither sitemapindex nor urlset
\* yields no request and returns without raising, whatever its entries and
\* the rule lists are; its locations are not iterated.
C18_OtherKindYieldsNothing ==
    \A i \in 1..Len(log) :
        OtherKind(i) =>
            /\ log[i].result.tasks = <<>>
            /\ log[i].result.outcome = "returned"
            /\ log[i].result.warnings = 0
            /\ "iterloc" \notin Range(log[i].result.calls)

\* a call on a document of another kind with two entries, one of them matched
\* by a content rule and by a follow pattern, that returned without a request
C18_Witness ==
    \E i \in 1..Len(log) :
        /\ OtherKind(i)
        /\ Len(DocEntries(i)) = 2
        /\ \E d \in Range(DocEntries(i)) :
              MatchesContent(d.loc) /\ MatchesFollow(d.loc)
        /\ log[i].result.tasks = <<>>
        /\ log[i].result.outcome = "returned"

----------------------------------------------------------------------------

\* the URLs the i-th call yielded a request for
Kept(i) == Range(TaskUrls(i))

\* C19: the requests of one document are yielded in document order: entry by
\* entry, within an entry the loc before its alternates in their listed
\* order; the locations that give no request leave the order of the others
\* as it is.
C19_DocumentOrder ==
    \A i \in 1..Len(log) :
        Dispatched(i, "urlset") \/ Dispatched(i, "sitemapindex") =>
            /\ TaskUrls(i) = SelectSeq(Locations(i), LAMBDA u : u \in Kept(i))
            /\ \A j \in 1..Len(DocEntries(i)) :
                  LET d == DocEntries(i)[j]
                      earlier == Range(FlatMap(Contribution,
                                               SubSeq(DocEntries(i), 1, j - 1)))
                      own == Range(Contribution(d)) \ earlier
                  IN  d.loc \in Kept(i) \ earlier =>
                          \A t \in 1..Len(TaskUrls(i)) :
                              TaskUrls(i)[t] \in own =>
                                  \E f \in 1..t : TaskUrls(i)[f] = d.loc

\* flag on: a call on two entries, the first with alternates, that yielded the
\* first loc, then its first alternate, then the second loc, and dropped the
\* second alternate
C19_Witness ==
    \E i \in 1..Len(log) :
        /\ Dispatched(i, "urlset")
        /\ sitemap_alternate_links
        /\ Len(DocEntries(i)) = 2
        /\ Len(DocEntries(i)[1].alternate) = 2
        /\ DocEntries(i)[1].alternate[2] \notin Kept(i)
        /\ TaskUrls(i) = <<DocEntries(i)[1].loc, DocEntries(i)[1].alternate[1],
                           DocEntries(i)[2].loc>>

====
